------------------------------ MODULE Spec2Model ------------------------------
(***************************************************************************)
(* The download page of client/src/pages/home.tsx as a state machine.      *)
(*                                                                         *)
(* The component `Home` holds five pieces of React state (platform,       *)
(* downloadType, inputValue, downloadState, consoleLines).  The async      *)
(* function handleDownload runs to its first `await` inside the event      *)
(* that started it and is resumed later by the transport; every piece of   *)
(* synchronous code between two awaits is one action here, because         *)
(* JavaScript runs it to completion and React applies the queued state     *)
(* updates in order before the next event is handled.                      *)
(*                                                                         *)
(* JavaScript strings are sequences of one-character strings, so that      *)
(* trim, includes, slice, toUpperCase, the template literals and the       *)
(* Content-Disposition pattern are computed as the code computes them.     *)
(***************************************************************************)
EXTENDS Integers, Sequences, FiniteSets, TLC

\* ---- Platform and DownloadType values (home.tsx lines 13-14) ----
\* 'youtube'
youtube == <<"y","o","u","t","u","b","e">>
\* 'tiktok'
tiktok == <<"t","i","k","t","o","k">>
\* 'video'
video == <<"v","i","d","e","o">>
\* 'audio'
audio == <<"a","u","d","i","o">>
\* 'search'
search == <<"s","e","a","r","c","h">>

\* ---- String literals of validateInput ----
\* 'youtu'
S_youtu == <<"y","o","u","t","u">>
\* 'ERROR.EMPTY_INPUT'
S_EmptyInputTitle == <<"E","R","R","O","R",".","E","M","P","T","Y","_","I","N","P","U","T">>
\* 'Please provide a username'
S_ProvideUsername == <<"P","l","e","a","s","e"," ","p","r","o","v","i","d","e"," ","a"," ","u","s","e","r","n","a","m","e">>
\* 'Please provide a URL'
S_ProvideUrl == <<"P","l","e","a","s","e"," ","p","r","o","v","i","d","e"," ","a"," ","U","R","L">>
\* 'ERROR.INVALID_URL'
S_InvalidUrlTitle == <<"E","R","R","O","R",".","I","N","V","A","L","I","D","_","U","R","L">>
\* 'Please provide a valid YouTube URL'
S_ValidYouTubeUrl == <<"P","l","e","a","s","e"," ","p","r","o","v","i","d","e"," ","a"," ","v","a","l","i","d"," ","Y","o","u","T","u","b","e"," ","U","R","L">>
\* 'Please provide a valid TikTok URL'
S_ValidTikTokUrl == <<"P","l","e","a","s","e"," ","p","r","o","v","i","d","e"," ","a"," ","v","a","l","i","d"," ","T","i","k","T","o","k"," ","U","R","L">>

\* ---- String literals of handleDownload ----
\* 'INITIALIZING_CONNECTION...'
S_Initializing == <<"I","N","I","T","I","A","L","I","Z","I","N","G","_","C","O","N","N","E","C","T","I","O","N",".",".",".">>
\* '> INIT '
S_Init == <<">"," ","I","N","I","T"," ">>
\* ' '
S_Space == <<" ">>
\* ' PROTOCOL'
S_Protocol == <<" ","P","R","O","T","O","C","O","L">>
\* '> TARGET: '
S_Target == <<">"," ","T","A","R","G","E","T",":"," ">>
\* '...'
S_Ellipsis == <<".",".",".">>
\* '/api/'
S_Api == <<"/","a","p","i","/">>
\* '/'
S_Slash == <<"/">>
\* '> CONNECTING TO API ENDPOINT...'
S_Connecting == <<">"," ","C","O","N","N","E","C","T","I","N","G"," ","T","O"," ","A","P","I"," ","E","N","D","P","O","I","N","T",".",".",".">>
\* 'ESTABLISHING_SECURE_CONNECTION...'
S_Establishing == <<"E","S","T","A","B","L","I","S","H","I","N","G","_","S","E","C","U","R","E","_","C","O","N","N","E","C","T","I","O","N",".",".",".">>
\* 'Download failed'
S_DownloadFailed == <<"D","o","w","n","l","o","a","d"," ","f","a","i","l","e","d">>
\* 'Server error: '
S_ServerError == <<"S","e","r","v","e","r"," ","e","r","r","o","r",":"," ">>
\* '> CONNECTION_ESTABLISHED'
S_ConnectionEstablished == <<">"," ","C","O","N","N","E","C","T","I","O","N","_","E","S","T","A","B","L","I","S","H","E","D">>
\* 'EXTRACTING_MEDIA_STREAM...'
S_Extracting == <<"E","X","T","R","A","C","T","I","N","G","_","M","E","D","I","A","_","S","T","R","E","A","M",".",".",".">>
\* 'filename='
S_FilenameEq == <<"f","i","l","e","n","a","m","e","=">>
\* '_'
S_Underscore == <<"_">>
\* '.mp3'
S_Mp3 == <<".","m","p","3">>
\* '.mp4'
S_Mp4 == <<".","m","p","4">>
\* '.'
S_Dot == <<".">>
\* '> DOWNLOADING: '
S_Downloading == <<">"," ","D","O","W","N","L","O","A","D","I","N","G",":"," ">>
\* 'STREAMING_DATA...'
S_Streaming == <<"S","T","R","E","A","M","I","N","G","_","D","A","T","A",".",".",".">>
\* 'Downloaded file is too small - may be invalid'
S_TooSmall == <<"D","o","w","n","l","o","a","d","e","d"," ","f","i","l","e"," ","i","s"," ","t","o","o"," ","s","m","a","l","l"," ","-"," ","m","a","y"," ","b","e"," ","i","n","v","a","l","i","d">>
\* '> DOWNLOAD_COMPLETE: '
S_DownloadCompleteLine == <<">"," ","D","O","W","N","L","O","A","D","_","C","O","M","P","L","E","T","E",":"," ">>
\* ' MB'
S_MB == <<" ","M","B">>
\* 'DOWNLOAD.COMPLETE'
S_DownloadComplete == <<"D","O","W","N","L","O","A","D",".","C","O","M","P","L","E","T","E">>
\* '> FILE_SAVED: '
S_FileSaved == <<">"," ","F","I","L","E","_","S","A","V","E","D",":"," ">>
\* 'DOWNLOAD.SUCCESS'
S_SuccessTitle == <<"D","O","W","N","L","O","A","D",".","S","U","C","C","E","S","S">>
\* ' downloaded successfully'
S_DownloadedSuccessfully == <<" ","d","o","w","n","l","o","a","d","e","d"," ","s","u","c","c","e","s","s","f","u","l","l","y">>
\* '> ERROR: '
S_ErrorLine == <<">"," ","E","R","R","O","R",":"," ">>
\* 'ERROR: '
S_ErrorMsg == <<"E","R","R","O","R",":"," ">>
\* 'ERROR.DOWNLOAD_FAILED'
S_FailedTitle == <<"E","R","R","O","R",".","D","O","W","N","L","O","A","D","_","F","A","I","L","E","D">>
\* 'Failed to process download request'
S_FailedToProcess == <<"F","a","i","l","e","d"," ","t","o"," ","p","r","o","c","e","s","s"," ","d","o","w","n","l","o","a","d"," ","r","e","q","u","e","s","t">>

\* ---- Texts the user may put in the input field ----
\* '  '
I_Blank == <<" "," ">>
\* 'youtu.be/x'
I_YoutubeUrl == <<"y","o","u","t","u",".","b","e","/","x">>
\* ' youtu.be/x '
I_PaddedYoutubeUrl == <<" ","y","o","u","t","u",".","b","e","/","x"," ">>
\* 'tiktok.com/v'
I_TiktokUrl == <<"t","i","k","t","o","k",".","c","o","m","/","v">>
\* 'https://example.com'
I_Example == <<"h","t","t","p","s",":","/","/","e","x","a","m","p","l","e",".","c","o","m">>
\* '@badbunny'
I_Username == <<"@","b","a","d","b","u","n","n","y">>
\* 'https://www.youtube.com/watch?v=dQw4w9WgXcQ&list=PL0123'
I_LongYoutubeUrl == <<"h","t","t","p","s",":","/","/","w","w","w",".","y","o","u","t","u","b","e",".","c","o","m","/","w","a","t","c","h","?","v","=","d","Q","w","4","w","9","W","g","X","c","Q","&","l","i","s","t","=","P","L","0","1","2","3">>

\* ---- Content-Disposition header values the server may send ----
\* 'attachment; filename="clip.mp4"'
H_Quoted == <<"a","t","t","a","c","h","m","e","n","t",";"," ","f","i","l","e","n","a","m","e","=","\"","c","l","i","p",".","m","p","4","\"">>
\* 'attachment; filename=clip'
H_NoExt == <<"a","t","t","a","c","h","m","e","n","t",";"," ","f","i","l","e","n","a","m","e","=","c","l","i","p">>
\* 'attachment'
H_NoFilename == <<"a","t","t","a","c","h","m","e","n","t">>
\* 'inline; filename=""; filename=b.mp3'
H_EmptyQuoted == <<"i","n","l","i","n","e",";"," ","f","i","l","e","n","a","m","e","=","\"","\"",";"," ","f","i","l","e","n","a","m","e","=","b",".","m","p","3">>
\* 'attachment; filename=song.v2; size=3'
H_Params == <<"a","t","t","a","c","h","m","e","n","t",";"," ","f","i","l","e","n","a","m","e","=","s","o","n","g",".","v","2",";"," ","s","i","z","e","=","3">>

\* ---- Error messages of the environment (transport, error body, file-save mechanism) ----
\* 'Failed to fetch'
E_FailedToFetch == <<"F","a","i","l","e","d"," ","t","o"," ","f","e","t","c","h">>
\* 'rate limited'
E_RateLimited == <<"r","a","t","e"," ","l","i","m","i","t","e","d">>
\* 'createObjectURL failed'
E_SaveFailed == <<"c","r","e","a","t","e","O","b","j","e","c","t","U","R","L"," ","f","a","i","l","e","d">>
\* ---- Values that are not strings ----
\* `undefined` (an absent optional field); no string equals it
Undefined == <<"<undefined>">>
\* `null` (headers.get of an absent header, a JSON null body)
Null == <<"<null>">>

\* ---- Bounds of the model ----
\* calls of handleDownload in one behaviour
MaxSubmits == 2
\* seconds the wall clock may advance
MaxTime == 1

\* ---- Program constants ----
\* the smallest accepted payload, in bytes
MinBlobSize == 1024
\* consoleLines keeps prev.slice(-KeepLines) and adds one
KeepLines == 10
\* characters of the input echoed in the TARGET line
TargetEcho == 50

Platforms == {youtube, tiktok}
DownloadTypes == {video, audio, search}

\* ---- String primitives of JavaScript ----
IsWhiteSpace(c) == c \in {" ", "\t", "\n", "\r"}

RECURSIVE TrimStart(_)
TrimStart(s) == IF s # <<>> /\ IsWhiteSpace(Head(s)) THEN TrimStart(Tail(s)) ELSE s

RECURSIVE TrimEnd(_)
TrimEnd(s) == IF s # <<>> /\ IsWhiteSpace(s[Len(s)]) THEN TrimEnd(SubSeq(s, 1, Len(s) - 1)) ELSE s

\* String.prototype.trim
Trim(s) == TrimEnd(TrimStart(s))

\* String.prototype.includes
Includes(s, sub) == \E i \in 0..(Len(s) - Len(sub)) : SubSeq(s, i + 1, i + Len(sub)) = sub

\* s.slice(0, n)
SliceTo(s, n) == SubSeq(s, 1, IF n < Len(s) THEN n ELSE Len(s))

\* a.slice(-n)
SliceLast(a, n) == SubSeq(a, (IF Len(a) > n THEN Len(a) - n ELSE 0) + 1, Len(a))

LowerCase == <<"a","b","c","d","e","f","g","h","i","j","k","l","m","n","o","p","q","r","s","t","u","v","w","x","y","z">>
UpperCase == <<"A","B","C","D","E","F","G","H","I","J","K","L","M","N","O","P","Q","R","S","T","U","V","W","X","Y","Z">>

\* String.prototype.toUpperCase
ToUpperCase(s) == [i \in 1..Len(s) |-> IF \E k \in 1..Len(LowerCase) : LowerCase[k] = s[i] THEN UpperCase[CHOOSE k \in 1..Len(LowerCase) : LowerCase[k] = s[i]] ELSE s[i]]

DigitChars == <<"0","1","2","3","4","5","6","7","8","9">>

\* Number to string, for a natural number
RECURSIVE NumberToString(_)
NumberToString(n) == IF n < 10 THEN <<DigitChars[n + 1]>> ELSE NumberToString(n \div 10) \o <<DigitChars[(n % 10) + 1]>>

\* x || y on strings: y when x is undefined, null or empty
OrElse(x, y) == IF x = Undefined \/ x = Null \/ x = <<>> THEN y ELSE x

\* ---- The clock ----
TwoDigits(n) == IF n < 10 THEN <<"0">> \o NumberToString(n) ELSE NumberToString(n)

\* new Date().toLocaleTimeString() at `t` seconds after midnight, in a 24-hour locale
toLocaleTimeString(t) == TwoDigits((t \div 3600) % 24) \o <<":">> \o TwoDigits((t \div 60) % 60) \o <<":">> \o TwoDigits(t % 60)

\* Date.now() at `t` seconds: milliseconds
DateNow(t) == t * 1000

\* (size / 1024 / 1024).toFixed(2): hundredths of a MiB, halves rounded up
toFixed2MB(size) == LET h == (size * 200 + 1048576) \div 2097152 IN NumberToString(h \div 100) \o <<".">> \o TwoDigits(h % 100)

\* ---- State ----
\* platform, downloadType, inputValue, downloadState, consoleLines: the React
\*   state of Home.
\* tasks: the calls of handleDownload suspended at an await, by call number;
\*   each holds the values its closure captured and its local variables.
\* now: the wall clock, in seconds.
\* invocations: calls of handleDownload so far.
\* effects: what the last event handled did and on whose behalf: the task it
\*   resumed, as it was when resumed (NoTask for a user event), the value the
\*   transport settled with, the statuses passed to setDownloadState in
\*   order, the toasts shown, the requests sent and the files handed to the
\*   browser.  Toasts, requests and saved files leave the component; the
\*   model keeps those of the last event only.
VARIABLES platform, downloadType, inputValue, downloadState, consoleLines, tasks, now, invocations, effects

vars == <<platform, downloadType, inputValue, downloadState, consoleLines, tasks, now, invocations, effects>>

\* what the user types or pastes into the input field
Inputs == {<<>>, I_YoutubeUrl}

\* what fetch resolves with: a status line and the Content-Disposition header
Responses == {[status |-> 200, contentDisposition |-> h] : h \in {Null, H_Quoted}} \cup {[status |-> 500, contentDisposition |-> Null]}

\* what fetch rejects with, written as a response without a status
NetworkError == [status |-> 0, contentDisposition |-> Null]

\* what response.json() settles with on an error response: a syntax error,
\* the JSON value null, an object without a message, an object with one
ErrorBodies == {[kind |-> "unparsable", message |-> Undefined], [kind |-> "null", message |-> Undefined], [kind |-> "object", message |-> Undefined], [kind |-> "object", message |-> E_RateLimited]}

\* payload sizes in bytes, around the threshold and a 2 MiB file
BlobSizes == {500, 1024, 2097152}

\* what response.blob() settles with, and whether the file-save mechanism throws
BlobOutcomes == {[rejects |-> TRUE, size |-> 0, saveThrows |-> FALSE]} \cup {[rejects |-> FALSE, size |-> s, saveThrows |-> FALSE] : s \in BlobSizes} \cup {[rejects |-> FALSE, size |-> 1024, saveThrows |-> TRUE]}

\* ---- The DownloadState values the component sets ----
InitialState == [status |-> "idle", progress |-> 0, message |-> <<>>, downloadUrl |-> Undefined, filename |-> Undefined]

ProcessingInit == [status |-> "processing", progress |-> 0, message |-> S_Initializing, downloadUrl |-> Undefined, filename |-> Undefined]

ProcessingConnecting == [status |-> "processing", progress |-> 20, message |-> S_Establishing, downloadUrl |-> Undefined, filename |-> Undefined]

DownloadingExtracting == [status |-> "downloading", progress |-> 50, message |-> S_Extracting, downloadUrl |-> Undefined, filename |-> Undefined]

DownloadingStreaming == [status |-> "downloading", progress |-> 70, message |-> S_Streaming, downloadUrl |-> Undefined, filename |-> Undefined]

\* CompleteState with the filename left out of the object
CompleteState_NoFilename(filename) == [status |-> "complete", progress |-> 100, message |-> S_DownloadComplete, downloadUrl |-> Undefined, filename |-> Undefined]

CompleteState(filename) == [status |-> "complete", progress |-> 100, message |-> S_DownloadComplete, downloadUrl |-> Undefined, filename |-> filename]

ErrorState(message) == [status |-> "error", progress |-> 0, message |-> S_ErrorMsg \o message, downloadUrl |-> Undefined, filename |-> Undefined]

ResetStateValue == [status |-> "idle", progress |-> 0, message |-> <<>>, downloadUrl |-> Undefined, filename |-> Undefined]

\* ---- ConsoleLog ----
\* an updater that puts the new line first
addConsoleLine_Prepend(prev, t, line) == << <<"[">> \o toLocaleTimeString(t) \o <<"]", " ">> \o line >> \o SliceLast(prev, KeepLines)

\* the updater of addConsoleLine applied to `prev` at time t
addConsoleLine(prev, t, line) == SliceLast(prev, KeepLines) \o << <<"[">> \o toLocaleTimeString(t) \o <<"]", " ">> \o line >>

\* validateInput testing inputValue itself instead of inputValue.trim()
validateInput_NoTrim(p, d, v) ==
  IF v = <<>>
  THEN [valid |-> FALSE, toasts |-> << [title |-> S_EmptyInputTitle, description |-> (IF d = search THEN S_ProvideUsername ELSE S_ProvideUrl), variant |-> "destructive"] >>]
  ELSE IF d # search /\ p = youtube /\ ~Includes(v, S_youtu)
  THEN [valid |-> FALSE, toasts |-> << [title |-> S_InvalidUrlTitle, description |-> S_ValidYouTubeUrl, variant |-> "destructive"] >>]
  ELSE IF d # search /\ p = tiktok /\ ~Includes(v, tiktok)
  THEN [valid |-> FALSE, toasts |-> << [title |-> S_InvalidUrlTitle, description |-> S_ValidTikTokUrl, variant |-> "destructive"] >>]
  ELSE [valid |-> TRUE, toasts |-> << >>]

\* ---- InputValidator ----
\* validateInput: the boolean it returns and the toasts it emits
validateInput(p, d, v) ==
  IF Trim(v) = <<>>
  THEN [valid |-> FALSE, toasts |-> << [title |-> S_EmptyInputTitle, description |-> (IF d = search THEN S_ProvideUsername ELSE S_ProvideUrl), variant |-> "destructive"] >>]
  ELSE IF d # search /\ p = youtube /\ ~Includes(v, S_youtu)
  THEN [valid |-> FALSE, toasts |-> << [title |-> S_InvalidUrlTitle, description |-> S_ValidYouTubeUrl, variant |-> "destructive"] >>]
  ELSE IF d # search /\ p = tiktok /\ ~Includes(v, tiktok)
  THEN [valid |-> FALSE, toasts |-> << [title |-> S_InvalidUrlTitle, description |-> S_ValidTikTokUrl, variant |-> "destructive"] >>]
  ELSE [valid |-> TRUE, toasts |-> << >>]

\* ---- FilenameResolver ----
\* characters the capture group of the pattern excludes
NotInGroup == {"\"", ";", "\n"}

\* where the capture group starts when "filename=" starts at p: after the
\* optional quote
GroupStart(h, p) == LET q == p + Len(S_FilenameEq) IN IF q <= Len(h) /\ h[q] = "\"" THEN q + 1 ELSE q

\* the pattern /filename="?([^";\n]+)"?/ matches at position p
MatchesAt(h, p) == /\ p + Len(S_FilenameEq) - 1 <= Len(h)
                   /\ SubSeq(h, p, p + Len(S_FilenameEq) - 1) = S_FilenameEq
                   /\ GroupStart(h, p) <= Len(h)
                   /\ h[GroupStart(h, p)] \notin NotInGroup

\* the last index of the greedy run [^";\n]+ that starts at g
RECURSIVE GroupEnd(_, _)
GroupEnd(h, g) == IF g + 1 <= Len(h) /\ h[g + 1] \notin NotInGroup THEN GroupEnd(h, g + 1) ELSE g

\* contentDisposition.match(...): match[1] of the leftmost match, or Null
MatchFilename(h) ==
  IF \E p \in 1..Len(h) : MatchesAt(h, p)
  THEN LET p == CHOOSE p \in 1..Len(h) : MatchesAt(h, p) /\ \A r \in 1..(p - 1) : ~MatchesAt(h, r)
           g == GroupStart(h, p)
       IN SubSeq(h, g, GroupEnd(h, g))
  ELSE Null

\* an extension that ignores the download type
Extension_AlwaysMp4(d) == S_Mp4

\* the file extension chosen by the download type
Extension(d) == IF d = audio THEN S_Mp3 ELSE S_Mp4

\* ResolveFilename that never reads the header
ResolveFilename_IgnoreHeader(contentDisposition, p, d, t) ==
  LET fallback == p \o S_Underscore \o d \o S_Underscore \o NumberToString(DateNow(t))
  IN IF ~Includes(fallback, S_Dot) THEN fallback \o Extension(d) ELSE fallback

\* the filename computed between the two awaits of handleDownload
ResolveFilename(contentDisposition, p, d, t) ==
  LET fallback == p \o S_Underscore \o d \o S_Underscore \o NumberToString(DateNow(t))
      named == IF contentDisposition # Null /\ contentDisposition # <<>> /\ MatchFilename(contentDisposition) # Null
               THEN MatchFilename(contentDisposition)
               ELSE fallback
  IN IF ~Includes(named, S_Dot) THEN named \o Extension(d) ELSE named

\* response.ok
ResponseOk(status) == status >= 200 /\ status <= 299

\* the size check with <= in place of <
TooSmall_Inclusive(size) == size <= MinBlobSize

\* blob.size < 1024
TooSmall(size) == size < MinBlobSize

\* ---- Orchestrator ----
\* no call of handleDownload: the task of a user event
NoTask == [pc |-> "none", platform |-> <<>>, downloadType |-> <<>>, inputValue |-> <<>>, response |-> NetworkError, filename |-> Undefined]

\* a user event receives nothing from the transport
NothingReceived == [kind |-> "nothing"]

\* the effects of an event: see the comment at VARIABLES
Effects(task, received, set, shown, sent, files) == [task |-> task, received |-> received, set |-> set, toasts |-> shown, requests |-> sent, saved |-> files]

\* an event that touches nothing outside the component's selection and input
NoEffects == Effects(NoTask, NothingReceived, <<>>, <<>>, <<>>, <<>>)

Init ==
  /\ platform = youtube
  /\ downloadType = video
  /\ inputValue = <<>>
  /\ downloadState = InitialState
  /\ consoleLines = <<>>
  /\ tasks = <<>>
  /\ now = 0
  /\ invocations = 0
  /\ effects = NoEffects

\* the calls of handleDownload that have sent their request and not returned
InFlight == DOMAIN tasks

\* controls that are never disabled
ControlsDisabled_Never == FALSE

\* the `disabled` attribute of the input and of the download button
ControlsDisabled == downloadState.status = "processing" \/ downloadState.status = "downloading"

\* a request whose body key is always url
Request_AlwaysUrl(p, d, v) == [endpoint |-> S_Api \o p \o S_Slash \o d, method |-> "POST", body |-> [key |-> "url", value |-> v]]

\* the request of lines 87-97
Request(p, d, v) == [endpoint |-> S_Api \o p \o S_Slash \o d, method |-> "POST", body |-> (IF d = search THEN [key |-> "query", value |-> v] ELSE [key |-> "url", value |-> v])]

\* the call of handleDownload started by this event, suspended at `await fetch`
NewTask == [pc |-> "fetch", platform |-> platform, downloadType |-> downloadType, inputValue |-> inputValue, response |-> NetworkError, filename |-> Undefined]

\* `tasks` with task i suspended at its next await, with locals `t`
Suspend(i, t) == [j \in DOMAIN tasks |-> IF j = i THEN t ELSE tasks[j]]

\* a return that leaves the call suspended where it was
Return_Never(i) == tasks

\* `tasks` after task i has returned
Return(i) == [j \in (DOMAIN tasks) \ {i} |-> tasks[j]]

\* an early return placed after the first setDownloadState
EarlyReturn_StateFirst(v) ==
  /\ effects' = Effects(NoTask, NothingReceived, <<ProcessingInit.status>>, v.toasts, <<>>, <<>>)
  /\ downloadState' = ProcessingInit
  /\ UNCHANGED <<platform, downloadType, inputValue, consoleLines, tasks, now>>

\* `if (!validateInput()) return;` when validation v has failed
EarlyReturn(v) ==
  /\ effects' = Effects(NoTask, NothingReceived, <<>>, v.toasts, <<>>, <<>>)
  /\ UNCHANGED <<platform, downloadType, inputValue, downloadState, consoleLines, tasks, now>>

\* handleDownload from its call to its first await
handleDownload ==
  /\ invocations < MaxSubmits
  /\ invocations' = invocations + 1
  /\ LET v == validateInput(platform, downloadType, inputValue) IN
     IF ~v.valid
     THEN EarlyReturn(v)
     ELSE LET l1 == addConsoleLine(consoleLines, now, S_Init \o ToUpperCase(platform) \o S_Space \o ToUpperCase(downloadType) \o S_Protocol)
              l2 == addConsoleLine(l1, now, S_Target \o SliceTo(inputValue, TargetEcho) \o (IF Len(inputValue) > TargetEcho THEN S_Ellipsis ELSE <<>>))
              l3 == addConsoleLine(l2, now, S_Connecting)
          IN /\ consoleLines' = l3
             /\ downloadState' = ProcessingConnecting
             /\ tasks' = [j \in (DOMAIN tasks) \cup {invocations + 1} |-> IF j = invocations + 1 THEN NewTask ELSE tasks[j]]
             /\ effects' = Effects(NoTask, NothingReceived, <<ProcessingInit.status, ProcessingConnecting.status>>, v.toasts, <<Request(platform, downloadType, inputValue)>>, <<>>)
             /\ UNCHANGED <<platform, downloadType, inputValue, now>>

\* the download button's onClick
ClickDownload == ~ControlsDisabled /\ handleDownload

\* the input's onKeyDown with the Enter key
PressEnter == ~ControlsDisabled /\ handleDownload

\* a catch block that logs the error and shows no toast
Catch_NoToast(i, received, lines, set, message) ==
  /\ consoleLines' = addConsoleLine(lines, now, S_ErrorLine \o message)
  /\ downloadState' = ErrorState(message)
  /\ tasks' = Return(i)
  /\ effects' = Effects(tasks[i], received, set \o <<ErrorState(message).status>>, <<>>, <<>>, <<>>)

\* the catch block of handleDownload, entered by task i after it received
\* `received`, with the log at `lines` and the statuses `set` in this event
Catch(i, received, lines, set, message) ==
  /\ consoleLines' = addConsoleLine(lines, now, S_ErrorLine \o message)
  /\ downloadState' = ErrorState(message)
  /\ tasks' = Return(i)
  /\ effects' = Effects(tasks[i], received, set \o <<ErrorState(message).status>>, << [title |-> S_FailedTitle, description |-> OrElse(message, S_FailedToProcess), variant |-> "destructive"] >>, <<>>, <<>>)

\* fetch rejects (no connection): the catch block runs
FetchReject(i) ==
  /\ tasks[i].pc = "fetch"
  /\ Catch(i, NetworkError, consoleLines, <<>>, E_FailedToFetch)
  /\ UNCHANGED <<platform, downloadType, inputValue, now, invocations>>

\* a continuation that names the file after the Selection shown when the
\* response arrives
FetchResolve_CurrentSelection(i, r) ==
  /\ tasks[i].pc = "fetch"
  /\ IF ~ResponseOk(r.status)
     THEN /\ tasks' = Suspend(i, [tasks[i] EXCEPT !.pc = "json", !.response = r])
          /\ effects' = Effects(tasks[i], r, <<>>, <<>>, <<>>, <<>>)
          /\ UNCHANGED <<downloadState, consoleLines>>
     ELSE LET t == tasks[i]
              l1 == addConsoleLine(consoleLines, now, S_ConnectionEstablished)
              filename == ResolveFilename(r.contentDisposition, platform, downloadType, now)
              l2 == addConsoleLine(l1, now, S_Downloading \o filename)
          IN /\ consoleLines' = l2
             /\ downloadState' = DownloadingStreaming
             /\ tasks' = Suspend(i, [t EXCEPT !.pc = "blob", !.response = r, !.filename = filename])
             /\ effects' = Effects(tasks[i], r, <<DownloadingExtracting.status, DownloadingStreaming.status>>, <<>>, <<>>, <<>>)
  /\ UNCHANGED <<platform, downloadType, inputValue, now, invocations>>

\* fetch resolves with response r: handleDownload runs to its next await
FetchResolve(i, r) ==
  /\ tasks[i].pc = "fetch"
  /\ IF ~ResponseOk(r.status)
     THEN /\ tasks' = Suspend(i, [tasks[i] EXCEPT !.pc = "json", !.response = r])
          /\ effects' = Effects(tasks[i], r, <<>>, <<>>, <<>>, <<>>)
          /\ UNCHANGED <<downloadState, consoleLines>>
     ELSE LET t == tasks[i]
              l1 == addConsoleLine(consoleLines, now, S_ConnectionEstablished)
              filename == ResolveFilename(r.contentDisposition, t.platform, t.downloadType, now)
              l2 == addConsoleLine(l1, now, S_Downloading \o filename)
          IN /\ consoleLines' = l2
             /\ downloadState' = DownloadingStreaming
             /\ tasks' = Suspend(i, [t EXCEPT !.pc = "blob", !.response = r, !.filename = filename])
             /\ effects' = Effects(tasks[i], r, <<DownloadingExtracting.status, DownloadingStreaming.status>>, <<>>, <<>>, <<>>)
  /\ UNCHANGED <<platform, downloadType, inputValue, now, invocations>>

\* an errorMessage that ignores the body and the status
ErrorMessage_Generic(status, b) == S_DownloadFailed

\* the errorMessage of lines 100-106 for an error body b
ErrorMessage(status, b) ==
  IF b.kind = "object" THEN OrElse(b.message, S_DownloadFailed) ELSE S_ServerError \o NumberToString(status)

\* a body read that settles without resuming the call
JsonSettle_Hangs(i, b) == tasks[i].pc = "json" /\ UNCHANGED vars

\* response.json() of an error response settles: the error is thrown and caught
JsonSettle(i, b) ==
  /\ tasks[i].pc = "json"
  /\ Catch(i, b, consoleLines, <<>>, ErrorMessage(tasks[i].response.status, b))
  /\ UNCHANGED <<platform, downloadType, inputValue, now, invocations>>

\* response.blob() settles with b: handleDownload runs to its end
BlobSettle(i, b) ==
  /\ tasks[i].pc = "blob"
  /\ LET t == tasks[i] IN
     IF b.rejects
     THEN Catch(i, b, consoleLines, <<>>, E_FailedToFetch)
     ELSE IF TooSmall(b.size)
     THEN Catch(i, b, consoleLines, <<>>, S_TooSmall)
     ELSE LET l1 == addConsoleLine(consoleLines, now, S_DownloadCompleteLine \o toFixed2MB(b.size) \o S_MB) IN
          IF b.saveThrows
          THEN Catch(i, b, l1, <<CompleteState(t.filename).status>>, E_SaveFailed)
          ELSE /\ downloadState' = CompleteState(t.filename)
               /\ consoleLines' = addConsoleLine(l1, now, S_FileSaved \o t.filename)
               /\ tasks' = Return(i)
               /\ effects' = Effects(tasks[i], b, <<CompleteState(t.filename).status>>, << [title |-> S_SuccessTitle, description |-> t.filename \o S_DownloadedSuccessfully, variant |-> "default"] >>, <<>>, << [filename |-> t.filename, size |-> b.size] >>)
  /\ UNCHANGED <<platform, downloadType, inputValue, now, invocations>>

\* a resetState that leaves the input as typed
resetState_KeepsInput ==
  /\ downloadState' = ResetStateValue
  /\ consoleLines' = <<>>
  /\ effects' = Effects(NoTask, NothingReceived, <<ResetStateValue.status>>, <<>>, <<>>, <<>>)
  /\ UNCHANGED <<platform, downloadType, inputValue, tasks, now, invocations>>

\* resetState: the three setters of lines 167-169
resetState ==
  /\ downloadState' = ResetStateValue
  /\ inputValue' = <<>>
  /\ consoleLines' = <<>>
  /\ effects' = Effects(NoTask, NothingReceived, <<ResetStateValue.status>>, <<>>, <<>>, <<>>)
  /\ UNCHANGED <<platform, downloadType, tasks, now, invocations>>

\* the reset button, rendered unless status is idle and never disabled
ClickReset == downloadState.status # "idle" /\ resetState

\* ---- Presentation: the Selection ----
\* a tab change that leaves the download type alone
SelectPlatform_KeepType(v) ==
  /\ platform' = v
  /\ effects' = NoEffects
  /\ UNCHANGED <<downloadType, inputValue, downloadState, consoleLines, tasks, now, invocations>>

\* onValueChange of the platform tabs
SelectPlatform(v) ==
  /\ platform' = v
  /\ downloadType' = IF v = youtube /\ downloadType = search THEN video ELSE downloadType
  /\ effects' = NoEffects
  /\ UNCHANGED <<inputValue, downloadState, consoleLines, tasks, now, invocations>>

\* the download type buttons rendered for the current platform
TypeButtons == IF platform = tiktok THEN {video, audio, search} ELSE {video, audio}

\* onClick of a download type button
SelectDownloadType(d) ==
  /\ d \in TypeButtons
  /\ downloadType' = d
  /\ effects' = NoEffects
  /\ UNCHANGED <<platform, inputValue, downloadState, consoleLines, tasks, now, invocations>>

\* onChange of the input field
ChangeInput(v) ==
  /\ ~ControlsDisabled
  /\ inputValue' = v
  /\ effects' = NoEffects
  /\ UNCHANGED <<platform, downloadType, downloadState, consoleLines, tasks, now, invocations>>

\* the wall clock advances by a second
Tick ==
  /\ now < MaxTime
  /\ now' = now + 1
  /\ effects' = NoEffects
  /\ UNCHANGED <<platform, downloadType, inputValue, downloadState, consoleLines, tasks, invocations>>

Next ==
  \/ \E v \in Platforms : SelectPlatform(v)
  \/ \E d \in DownloadTypes : SelectDownloadType(d)
  \/ \E v \in Inputs : ChangeInput(v)
  \/ ClickDownload
  \/ PressEnter
  \/ \E i \in InFlight : FetchReject(i)
  \/ \E i \in InFlight : \E r \in Responses : FetchResolve(i, r)
  \/ \E i \in InFlight : \E b \in ErrorBodies : JsonSettle(i, b)
  \/ \E i \in InFlight : \E b \in BlobOutcomes : BlobSettle(i, b)
  \/ ClickReset

\* one session of the page within one second of the wall clock
Spec == Init /\ [][Next]_vars

\* the same with the wall clock advancing
SpecClock == Init /\ [][Next \/ Tick]_vars

\* ---- A transport that answers, a page that is not reset ----
\* the events of the page other than the reset button
NextNoReset ==
  \/ \E v \in Platforms : SelectPlatform(v)
  \/ \E d \in DownloadTypes : SelectDownloadType(d)
  \/ \E v \in Inputs : ChangeInput(v)
  \/ ClickDownload
  \/ PressEnter
  \/ \E i \in InFlight : FetchReject(i)
  \/ \E i \in InFlight : \E r \in Responses : FetchResolve(i, r)
  \/ \E i \in InFlight : \E b \in ErrorBodies : JsonSettle(i, b)
  \/ \E i \in InFlight : \E b \in BlobOutcomes : BlobSettle(i, b)

\* a promise a call is awaiting settles
Transport ==
  \E i \in InFlight :
    \/ FetchReject(i)
    \/ \E r \in Responses : FetchResolve(i, r)
    \/ \E b \in ErrorBodies : JsonSettle(i, b)
    \/ \E b \in BlobOutcomes : BlobSettle(i, b)

\* every awaited promise settles eventually and the reset button is not used
SpecLive == Init /\ [][NextNoReset]_vars /\ WF_vars(Transport)

\* ---- InputValidator on every Selection ----
\* texts for the validator alone
ValidateInputs == {<<>>, I_Blank, I_YoutubeUrl, I_PaddedYoutubeUrl, I_TiktokUrl, I_Example, I_Username, I_LongYoutubeUrl}

\* any platform, download type and text, the page otherwise as constructed
InitValidate ==
  /\ platform \in Platforms
  /\ downloadType \in DownloadTypes
  /\ inputValue \in ValidateInputs
  /\ downloadState = InitialState
  /\ consoleLines = <<>>
  /\ tasks = <<>>
  /\ now = 0
  /\ invocations = 0
  /\ effects = NoEffects

NextValidate == ClickDownload \/ PressEnter

\* handleDownload called on each Selection
SpecValidate == InitValidate /\ [][NextValidate]_vars

\* ---- FilenameResolver on every header ----
\* the Selections the tabs and type buttons can show
Selections == {<<p, d>> : p \in Platforms, d \in DownloadTypes} \ {<<youtube, search>>}

\* texts that pass validation on some Selection
FilenameInputs == {I_YoutubeUrl, I_TiktokUrl}

\* success responses with each Content-Disposition header, absent and empty included
FilenameResponses == {[status |-> 200, contentDisposition |-> h] : h \in {Null, <<>>, H_Quoted, H_NoExt, H_NoFilename, H_EmptyQuoted, H_Params}}

\* any Selection and text, the page otherwise as constructed
InitFilename ==
  /\ \E s \in Selections : platform = s[1] /\ downloadType = s[2]
  /\ inputValue \in FilenameInputs
  /\ downloadState = InitialState
  /\ consoleLines = <<>>
  /\ tasks = <<>>
  /\ now = 0
  /\ invocations = 0
  /\ effects = NoEffects

NextFilename ==
  \/ ClickDownload
  \/ Tick
  \/ \E i \in InFlight : \E r \in FilenameResponses : FetchResolve(i, r)

\* handleDownload up to its second await, on each Selection, header and second
SpecFilename == InitFilename /\ [][NextFilename]_vars

\* ---- Properties ----
\* "clip.mp4", the name in H_Quoted
F_Clip == <<"c","l","i","p",".","m","p","4">>

\* the last event resumed a task suspended at `at`
Resumed(at) == effects.task.pc = at

\* the last event passed status s to setDownloadState
DidSet(s) == \E k \in 1..Len(effects.set) : effects.set[k] = s

\* C1: status = idle implies progress = 0; status = complete implies a
\* filename is set; status = error implies progress = 0.
Inv_C1 ==
  /\ downloadState.status = "idle" => downloadState.progress = 0
  /\ downloadState.status = "complete" => (downloadState.filename # Undefined /\ downloadState.filename # <<>>)
  /\ downloadState.status = "error" => downloadState.progress = 0

\* a download has completed
Witness_C1 == downloadState.status = "complete" /\ downloadState.progress = 100

\* C2: while the state is the fresh one a reset leaves (idle, empty log), a
\* step that is not a new call of handleDownload changes neither
\* downloadState nor consoleLines.
Claim_C2 == [][(downloadState.status = "idle" /\ consoleLines = <<>> /\ invocations' = invocations) => (downloadState' = downloadState /\ consoleLines' = consoleLines)]_vars

\* C3: at most one call of handleDownload is in flight.
Claim_C3 == Cardinality(InFlight) <= 1

\* C4: every call of handleDownload starts in a state whose status is idle,
\* complete or error.
Thm_C4 == [][invocations' # invocations => downloadState.status \in {"idle", "complete", "error"}]_vars

\* a second call has just sent its request while the first is still in flight
Witness_C4 == invocations = 2 /\ effects.requests # <<>> /\ Cardinality(InFlight) = 2

\* C5: a call of handleDownload whose validation fails changes neither
\* downloadState, consoleLines nor inputValue, starts no task, sends no
\* request and shows exactly one toast, a destructive one.
Thm_C5 == [][(invocations' # invocations /\ ~validateInput(platform, downloadType, inputValue).valid) => (/\ downloadState' = downloadState /\ consoleLines' = consoleLines /\ inputValue' = inputValue /\ tasks' = tasks /\ effects'.requests = <<>> /\ effects'.set = <<>> /\ Len(effects'.toasts) = 1 /\ effects'.toasts[1].variant = "destructive")]_vars

\* an invalid URL was refused while the page showed a completed download
Witness_C5 == /\ downloadState.status = "complete"
              /\ consoleLines # <<>>
              /\ Len(effects.toasts) = 1
              /\ effects.toasts[1].title = S_InvalidUrlTitle

\* text v has n as a substring, position by position
HasSubstring(v, n) == \E i \in 1..Len(v) : \A k \in 1..Len(n) : i + k - 1 <= Len(v) /\ v[i + k - 1] = n[k]

\* the substring the platform's URLs must have
PlatformSubstring(p) == IF p = youtube THEN <<"y","o","u","t","u">> ELSE <<"t","i","k","t","o","k">>

\* the ordered rules of the validator, on a Selection
Ruled(p, d, v) ==
  IF \A k \in 1..Len(v) : IsWhiteSpace(v[k]) THEN "EmptyInput"
  ELSE IF d # search /\ ~HasSubstring(v, PlatformSubstring(p)) THEN "InvalidUrl"
  ELSE "Ok"

\* what the last call of handleDownload did: sent a request, or refused
\* with one of the two titles
Observed ==
  IF effects.requests # <<>> THEN "Ok"
  ELSE IF Len(effects.toasts) = 1 /\ effects.toasts[1].title = S_EmptyInputTitle THEN "EmptyInput"
  ELSE IF Len(effects.toasts) = 1 /\ effects.toasts[1].title = S_InvalidUrlTitle THEN "InvalidUrl"
  ELSE "None"

\* C6: handleDownload refuses with EMPTY_INPUT iff the trimmed text is
\* empty, otherwise with INVALID_URL iff the type is not search and the text
\* lacks the platform's substring, and otherwise proceeds; on every platform,
\* type and text.
Thm_C6 == [][invocations' # invocations => Observed' = Ruled(platform, downloadType, inputValue)]_vars

\* a search for a username that has neither substring was accepted
Witness_C6 == /\ downloadType = search
              /\ inputValue = I_Username
              /\ effects.requests # <<>>
              /\ downloadState.status = "processing"

\* C7: a step that sets status to downloading or complete starts from a
\* state whose status is processing or downloading.
Claim_C7 == [][(\E k \in 1..Len(effects'.set) : effects'.set[k] \in {"downloading", "complete"}) => downloadState.status \in {"processing", "downloading"}]_vars

\* C8: when response.json() of a non-success response settles, the state
\* becomes error with progress 0 and error is the only status set; the
\* message contains the body's message when the body is an object with one,
\* and "Server error: 500" when the body of a 500 does not parse. The step
\* that received the non-success response set no status.
Inv_C8 ==
  /\ (Resumed("fetch") /\ effects.received.status # 0 /\ ~(effects.received.status \in 200..299)) => effects.set = <<>>
  /\ Resumed("json") =>
       /\ ~(effects.task.response.status \in 200..299)
       /\ downloadState.status = "error"
       /\ downloadState.progress = 0
       /\ effects.set = <<"error">>
       /\ (effects.received.kind = "object" /\ effects.received.message # Undefined) => HasSubstring(downloadState.message, effects.received.message)
       /\ (effects.received.kind = "unparsable" /\ effects.task.response.status = 500) => HasSubstring(downloadState.message, <<"S","e","r","v","e","r"," ","e","r","r","o","r",":"," ","5","0","0">>)

\* a 500 whose body says "rate limited" has ended in error
Witness_C8 == /\ Resumed("json")
              /\ effects.task.response.status = 500
              /\ effects.received.kind = "object"
              /\ effects.received.message = E_RateLimited
              /\ downloadState.status = "error"

\* C9: when response.blob() of a success response resolves with fewer than
\* 1024 bytes, the state becomes error with progress 0 and the too-small
\* message and nothing is saved, whatever the header; with 1024 bytes or
\* more the too-small message is not the outcome. Receiving the response
\* saves nothing either.
Inv_C9 ==
  /\ (Resumed("fetch") /\ effects.received.status \in 200..299) => effects.saved = <<>>
  /\ (Resumed("blob") /\ ~effects.received.rejects) =>
       /\ effects.received.size < 1024 =>
            /\ downloadState.status = "error"
            /\ downloadState.progress = 0
            /\ HasSubstring(downloadState.message, <<"f","i","l","e"," ","i","s"," ","t","o","o"," ","s","m","a","l","l">>)
            /\ effects.saved = <<>>
            /\ ~DidSet("complete")
       /\ effects.received.size >= 1024 => ~HasSubstring(downloadState.message, <<"t","o","o"," ","s","m","a","l","l">>)

\* a 500-byte body sent with a Content-Disposition header was refused
Witness_C9 == /\ Resumed("blob")
              /\ effects.received.size = 500
              /\ effects.task.response.contentDisposition = H_Quoted
              /\ downloadState.status = "error"

\* C10: when response.blob() of a success response resolves with at least
\* 1024 bytes and the save does not throw, the state becomes complete with
\* progress 100 and the task's filename (the header's when it names one), the
\* file is handed to the browser once under that name, the last log line is
\* the FILE_SAVED line and exactly one toast, a non-destructive one, is
\* shown. The earlier steps of the call (dispatch, receiving the response)
\* show no toast and save nothing.
Inv_C10 ==
  /\ effects.requests # <<>> => (effects.toasts = <<>> /\ effects.saved = <<>>)
  /\ (Resumed("fetch") /\ effects.received.status \in 200..299) => (effects.toasts = <<>> /\ effects.saved = <<>>)
  /\ (Resumed("blob") /\ ~effects.received.rejects /\ effects.received.size >= 1024 /\ ~effects.received.saveThrows) =>
       /\ downloadState.status = "complete"
       /\ downloadState.progress = 100
       /\ downloadState.filename = effects.task.filename
       /\ effects.task.response.contentDisposition = H_Quoted => downloadState.filename = F_Clip
       /\ effects.saved = << [filename |-> downloadState.filename, size |-> effects.received.size] >>
       /\ consoleLines # <<>>
       /\ HasSubstring(consoleLines[Len(consoleLines)], <<"F","I","L","E","_","S","A","V","E","D",":"," ">> \o downloadState.filename)
       /\ Len(effects.toasts) = 1
       /\ effects.toasts[1].variant = "default"

\* a 2 MiB body sent with filename="clip.mp4" has been saved as clip.mp4
Witness_C10 == /\ Resumed("blob")
               /\ effects.received.size = 2097152
               /\ downloadState.status = "complete"
               /\ downloadState.filename = F_Clip
               /\ effects.saved # <<>>

\* C11: consoleLines never holds more than 10 entries. (That an append drops
\* only the oldest entries is the structure stated with C17.)
Claim_C11 == Len(consoleLines) <= 10

\* C12: a step that runs resetState, whatever the status it starts from and
\* whether or not a request is pending, ends with status idle, progress 0, an
\* empty message, no filename and no downloadUrl, an empty log and an empty
\* input, and leaves platform and downloadType as they were.
Thm_C12 == [][effects'.set = <<"idle">> => (/\ downloadState'.status = "idle" /\ downloadState'.progress = 0 /\ downloadState'.message = <<>> /\ downloadState'.filename = Undefined /\ downloadState'.downloadUrl = Undefined /\ consoleLines' = <<>> /\ inputValue' = <<>> /\ platform' = platform /\ downloadType' = downloadType)]_vars

\* the page was reset on TikTok search while its request was pending
Witness_C12 == /\ effects.set = <<"idle">>
               /\ InFlight # {}
               /\ platform = tiktok
               /\ downloadType = search
               /\ inputValue = <<>>
               /\ consoleLines = <<>>

\* the filename each header of FilenameResponses names, read off the header
NamedIn(h) ==
  CASE h = H_Quoted -> F_Clip
    [] h = H_NoExt -> <<"c","l","i","p">>
    [] h = H_EmptyQuoted -> <<"b",".","m","p","3">>
    [] h = H_Params -> <<"s","o","n","g",".","v","2">>
    [] OTHER -> Null

\* the extension the claims give each download type
ExpectedExt(d) == IF d = audio THEN <<".","m","p","3">> ELSE <<".","m","p","4">>

\* the epoch milliseconds at second t, in decimal
Millis(t) == IF t = 0 THEN <<"0">> ELSE NumberToString(t) \o <<"0","0","0">>

\* C13: the filename handleDownload resolves from a success response is
\* never empty and always has a '.'; when the header names no file it is
\* "<platform>_<type>_<epoch milliseconds>" followed by .mp3 for audio and
\* .mp4 otherwise; when the header names a file without a '.' it is that name
\* followed by the same extension; when the header names a file with a '.'
\* it is that name unchanged. The name is the one the DOWNLOADING log line
\* shows.
Inv_C13 ==
  (Resumed("fetch") /\ effects.received.status \in 200..299) =>
    /\ InFlight # {}
    /\ \A i \in InFlight :
         LET name == tasks[i].filename
             h == effects.received.contentDisposition
             p == effects.task.platform
             d == effects.task.downloadType
         IN /\ tasks[i].pc = "blob"
            /\ name # <<>>
            /\ name # Undefined
            /\ HasSubstring(name, <<".">>)
            /\ NamedIn(h) = Null => name = p \o <<"_">> \o d \o <<"_">> \o Millis(now) \o ExpectedExt(d)
            /\ (NamedIn(h) # Null /\ ~HasSubstring(NamedIn(h), <<".">>)) => name = NamedIn(h) \o ExpectedExt(d)
            /\ (NamedIn(h) # Null /\ HasSubstring(NamedIn(h), <<".">>)) => name = NamedIn(h)
            /\ HasSubstring(consoleLines[Len(consoleLines)], <<"D","O","W","N","L","O","A","D","I","N","G",":"," ">> \o name)

\* an audio download whose header says filename=clip was named clip.mp3
Witness_C13 == /\ Resumed("fetch")
               /\ effects.received.contentDisposition = H_NoExt
               /\ effects.task.downloadType = audio
               /\ \E i \in InFlight : tasks[i].filename = <<"c","l","i","p",".","m","p","3">>

\* the endpoint the claims give a Selection
EndpointOf(p, d) == <<"/","a","p","i","/">> \o p \o <<"/">> \o d

\* C14: a call of handleDownload that passes validation sends exactly one
\* request, a POST to /api/<platform>/<type> whose body has the key query
\* when the type is search and the key url otherwise, with the input as its
\* value; a call that fails validation sends none; and no other step sends a
\* request, so a failed call is never retried.
Thm_C14 ==
  [][/\ (invocations' # invocations /\ Ruled(platform, downloadType, inputValue) = "Ok") =>
          /\ Len(effects'.requests) = 1
          /\ effects'.requests[1].method = "POST"
          /\ effects'.requests[1].endpoint = EndpointOf(platform, downloadType)
          /\ effects'.requests[1].body.key = (IF downloadType = search THEN "query" ELSE "url")
          /\ effects'.requests[1].body.value = inputValue
     /\ (invocations' # invocations /\ Ruled(platform, downloadType, inputValue) # "Ok") => effects'.requests = <<>>
     /\ invocations' = invocations => effects'.requests = <<>>
    ]_vars

\* after a failed download, a fresh TikTok search sent its one request
Witness_C14 == /\ invocations = 2
               /\ Len(effects.requests) = 1
               /\ effects.requests[1].endpoint = <<"/","a","p","i","/","t","i","k","t","o","k","/","s","e","a","r","c","h">>
               /\ effects.requests[1].body.key = "query"
               /\ \E k \in 1..Len(consoleLines) : HasSubstring(consoleLines[k], <<">"," ","E","R","R","O","R",":"," ">>)

\* the last event was a failure after dispatch: fetch rejected, the error
\* body of a non-success response settled, the blob rejected or was too
\* small, or the save threw
Failed ==
  \/ Resumed("fetch") /\ effects.received.status = 0
  \/ Resumed("json")
  \/ Resumed("blob") /\ (effects.received.rejects \/ effects.received.size < 1024 \/ effects.received.saveThrows)

\* line l of the log is an ERROR entry
IsErrorLine(l) == HasSubstring(l, <<">"," ","E","R","R","O","R",":"," ">>)

\* log `after` is log `before` with its oldest entries dropped and k new ones
NewLines(before, after, k) ==
  /\ Len(after) >= k
  /\ Len(after) - k <= Len(before)
  /\ \A j \in 1..(Len(after) - k) : after[j] = before[Len(before) - (Len(after) - k) + j]

\* C15: a step in which a call of handleDownload fails after dispatch ends
\* with status error and progress 0, appends exactly one ERROR entry to the
\* log (as its last entry), shows exactly one toast, a destructive one, and
\* saves nothing; error is the last status it sets. The other steps of a
\* call (dispatch, receiving the response) append no ERROR entry and show no
\* toast.
Thm_C15 ==
  [][/\ Failed' =>
          /\ downloadState'.status = "error"
          /\ downloadState'.progress = 0
          /\ effects'.set # <<>>
          /\ effects'.set[Len(effects'.set)] = "error"
          /\ Len(effects'.toasts) = 1
          /\ effects'.toasts[1].variant = "destructive"
          /\ effects'.saved = <<>>
          /\ consoleLines' # <<>>
          /\ IsErrorLine(consoleLines'[Len(consoleLines')])
          /\ \/ NewLines(consoleLines, consoleLines', 1)
             \/ /\ NewLines(consoleLines, consoleLines', 2)
                /\ ~IsErrorLine(consoleLines'[Len(consoleLines') - 1])
     /\ (effects'.requests # <<>> \/ (effects'.task.pc = "fetch" /\ effects'.received.status # 0)) =>
          /\ effects'.toasts = <<>>
          /\ \A j \in 1..Len(consoleLines') : IsErrorLine(consoleLines'[j]) => (j <= Len(consoleLines) /\ \E k \in j..Len(consoleLines) : consoleLines[k] = consoleLines'[j])
    ]_vars

\* the save threw after the DOWNLOAD_COMPLETE entry: the call ended in error
Witness_C15 == /\ Resumed("blob")
               /\ effects.received.saveThrows
               /\ effects.set = <<"complete", "error">>
               /\ downloadState.status = "error"
               /\ Len(effects.toasts) = 1

\* C16: the download type is search only when the platform is tiktok, in the
\* Selection shown and in the Selection of every pending call, and no
\* request is sent to /api/youtube/search.
Inv_C16 ==
  /\ downloadType = search => platform = tiktok
  /\ \A i \in InFlight : tasks[i].downloadType = search => tasks[i].platform = tiktok
  /\ \A k \in 1..Len(effects.requests) : effects.requests[k].endpoint # <<"/","a","p","i","/","y","o","u","t","u","b","e","/","s","e","a","r","c","h">>

\* the YouTube tab was chosen while a TikTok search was pending
Witness_C16 == /\ platform = youtube
               /\ downloadType = video
               /\ \E i \in InFlight : tasks[i].platform = tiktok /\ tasks[i].downloadType = search

\* log `after` is what k appends make of log `before`: the k new entries
\* last, before them the most recent entries of `before` in their order, as
\* many as 11 - k allows
Appended(before, after, k) ==
  LET kept == IF Len(before) < 11 - k THEN Len(before) ELSE 11 - k
  IN /\ Len(after) = kept + k
     /\ \A j \in 1..kept : after[j] = before[Len(before) - kept + j]

\* C17: consoleLines holds at most 11 entries, and a step that changes it
\* either empties it (reset) or appends one to three entries: the new
\* entries come last and the entries kept are the most recent prior ones in
\* their order, so only the oldest entries are dropped.
Thm_C17 ==
  [][/\ Len(consoleLines') <= 11
     /\ consoleLines' # consoleLines =>
          \/ consoleLines' = <<>> /\ effects'.set = <<"idle">>
          \/ \E k \in 1..3 : Appended(consoleLines, consoleLines', k)
    ]_vars

\* the log is full and no longer starts with the first INIT entry
Witness_C17 == /\ Len(consoleLines) = 11
               /\ ~HasSubstring(consoleLines[1], <<">"," ","I","N","I","T"," ">>)
               /\ HasSubstring(consoleLines[11], <<"F","I","L","E","_","S","A","V","E","D">>)

\* C18, as the spec states it: when a call of handleDownload has set status
\* complete, complete is the last status that call sets, also when the save
\* fails afterwards.
Claim_C18 == DidSet("complete") => downloadState.status = "complete"

\* C18, amended: a call of handleDownload sets complete only in its last
\* step and returns in that step, so it sets no status in a later step.
\* Within that step complete is the only status set and the state ends
\* complete, unless the save throws: then the same step goes on to set error
\* and the state ends error.
Thm_C18 ==
  [][(\E k \in 1..Len(effects'.set) : effects'.set[k] = "complete") =>
       /\ effects'.task.pc = "blob"
       /\ \E i \in InFlight : tasks[i] = effects'.task /\ InFlight' = InFlight \ {i}
       /\ IF effects'.received.saveThrows
          THEN effects'.set = <<"complete", "error">> /\ downloadState'.status = "error" /\ downloadState'.progress = 0
          ELSE effects'.set = <<"complete">> /\ downloadState'.status = "complete"
    ]_vars

\* the save threw: the call set complete, then error, and has returned
Witness_C18 == /\ DidSet("complete")
               /\ effects.received.saveThrows
               /\ downloadState.status = "error"
               /\ HasSubstring(downloadState.message, E_SaveFailed)
               /\ InFlight = {}

\* C19: when every awaited promise settles eventually and the page is not
\* reset, every call of handleDownload that has sent its request eventually
\* returns, and the status is then complete or error.
Thm_C19 == \A i \in 1..MaxSubmits : (i \in InFlight) ~> (i \notin InFlight /\ downloadState.status \in {"complete", "error"})

\* a second download, started after a failed one, has completed
Witness_C19 == /\ invocations = 2
               /\ Resumed("blob")
               /\ downloadState.status = "complete"
               /\ InFlight = {}
               /\ \E k \in 1..Len(consoleLines) : IsErrorLine(consoleLines[k])

\* C20: a call of handleDownload works on the platform, download type and
\* text shown when it was made: its request goes to that Selection's
\* endpoint with that Selection's body key, the Selection it holds does not
\* change while it is pending whatever the tabs and buttons then show, and
\* when the response names no file the filename it resolves is made of that
\* platform, that download type and the extension of that download type.
Thm_C20 ==
  [][\A i \in InFlight' :
       IF i \in InFlight
       THEN /\ tasks'[i].platform = tasks[i].platform
            /\ tasks'[i].downloadType = tasks[i].downloadType
            /\ tasks'[i].inputValue = tasks[i].inputValue
            /\ (tasks[i].pc = "fetch" /\ tasks'[i].pc = "blob" /\ NamedIn(tasks'[i].response.contentDisposition) = Null) =>
                 tasks'[i].filename = tasks[i].platform \o <<"_">> \o tasks[i].downloadType \o <<"_">> \o Millis(now) \o ExpectedExt(tasks[i].downloadType)
       ELSE /\ tasks'[i].platform = platform
            /\ tasks'[i].downloadType = downloadType
            /\ tasks'[i].inputValue = inputValue
            /\ Len(effects'.requests) = 1
            /\ effects'.requests[1].endpoint = EndpointOf(platform, downloadType)
            /\ effects'.requests[1].body.key = (IF downloadType = search THEN "query" ELSE "url")
    ]_vars

\* a YouTube audio download was named youtube_audio_0.mp3 although the TikTok
\* search tab was shown when the response arrived
Witness_C20 == /\ platform = tiktok
               /\ downloadType = search
               /\ Resumed("fetch")
               /\ \E i \in InFlight : tasks[i].filename = <<"y","o","u","t","u","b","e","_","a","u","d","i","o","_","0",".","m","p","3">>

=============================================================================
